---- MODULE Spec2Model ----
(***************************************************************************)
(* Model of telethon/client/updates.py (class UpdateMethods): the handler  *)
(* registry (add_event_handler, remove_event_handler,                      *)
(* list_event_handlers), the dispatcher (_dispatch_update) with its lazy   *)
(* resolve barrier, the normalizer (_handle_update), the difference        *)
(* reconciler (catch_up) and the keep-alive loop (_update_loop).           *)
(*                                                                         *)
(* Coroutines are modelled at the granularity of asyncio: a task runs      *)
(* without interruption until it suspends in an await. The awaits of the   *)
(* file that can suspend are event.resolve(self), callback(event), the     *)
(* slow path of asyncio.Lock.acquire, the difference request, and in the   *)
(* keep-alive loop the wait, is_user_authorized() and the state request.   *)
(***************************************************************************)
EXTENDS Integers, Sequences, FiniteSets, TLC

\* ------------------------------------------------------------------ bounds
\* Number of add_event_handler calls in a behaviour.
MaxAdds == 2
\* Number of dispatch tasks created in a behaviour.
MaxDispatch == 2
\* Length of the registration lists remove_event_handler is applied to.
MaxLen == 3
\* Number of difference requests one catch_up sends before the server's
\* answer ends the loop.
MaxRequests == 3
\* Number of envelopes the transport hands to _handle_update in a behaviour.
MaxEnvelopes == 2
\* Number of timeouts of its wait the keep-alive loop is followed through.
MaxCycles == 40

\* ------------------------------------------------------------ input domains
None == "None"
\* The event argument of add/remove_event_handler: None, a matcher class
\* (id 0) or a matcher instance (id > 0, the number of the call that made it).
NoEvent == [id |-> 0, type |-> None]
Class(t) == [id |-> 0, type |-> t]
\* cb1 is a function; cb2 is a callable object without a __name__ attribute,
\* such as a functools.partial.
Callbacks == {"cb1", "cb2"}
\* hasattr(callback, '__name__').
HasName(callback) == callback = "cb1"
\* Matcher classes; MessageEdited is a subclass of NewMessage.
EventTypes == {"Raw", "NewMessage", "MessageEdited"}
\* Leaf update kinds handed to the dispatcher.
Updates == {"UpdateNewMessage", "UpdateEditMessage"}
\* What awaiting a callback can end with.
Outcomes == {"return", "raise", "StopPropagation"}
Tasks == 1..MaxDispatch
MatcherIds == 1..(IF MaxAdds > MaxLen THEN MaxAdds ELSE MaxLen)

VARIABLES
    event_builders,          \* self._event_builders: list of (event, callback)
    events_pending_resolve,  \* self._events_pending_resolve: list of events
    event_resolve_lock,      \* self._event_resolve_lock: asyncio.Lock
    nadds,                   \* add_event_handler calls made so far
    found,                   \* return value of the last remove_event_handler
    ntasks,                  \* dispatch tasks created so far
    pc,                      \* per dispatch task: where it is suspended
    update,                  \* per dispatch task: its update argument
    resolve_it,              \* per task: index in the pending list being resolved
    builders_it,             \* per task: next index of the iterator over _event_builders
    invoked,                 \* per task: the registrations whose callback it has called
    last_out,                \* per task: how its last finished callback ended
    task_callback,           \* per task: the loop variable callback of line 240
    resolve_started,         \* per matcher instance: resolve() calls begun
    resolve_done,            \* per matcher instance: resolve() calls completed
    built_unresolved,        \* instances build() was called on before a resolve() completed
    session_state,           \* self.session's stored update state of entity 0
    catching_up,             \* self.session.catching_up
    mem_state,               \* self._state, the cursor _handle_update advances
    scheduled,               \* the updates handed to create_task(_dispatch_update(..))
    cu_pc,                   \* catch_up: "idle", "request" (awaiting the answer), "done"
    state,                   \* catch_up: its local variable state
    requests,                \* catch_up: the GetDifferenceRequests it has sent
    responses,               \* catch_up: the answers it has received
    cu_result,               \* catch_up: "returned" or "raised", once it is done
    fed,                     \* catch_up: the numbers of the answers given to _handle_update
    handled,                 \* the updates _handle_update was called with from outside
    gaps,                    \* per update with pts seen by the last call: cursor, pts, need_diff
    other_pc,                \* an overlapping catch_up: "idle", "request", "done"
    other_state,             \* an overlapping catch_up: its local variable state
    other_requests,          \* an overlapping catch_up: the requests it has sent
    ka_pc,                   \* _update_loop: where it is suspended
    connected,               \* self.is_connected()
    now,                     \* time.time(), in seconds
    last_request,            \* self._last_request
    ka_cycle                 \* _update_loop: what the current cycle has done

regVars == <<event_builders, events_pending_resolve, nadds, found>>
taskVars == <<ntasks, pc, update, resolve_it, builders_it, invoked, last_out,
              task_callback>>
resolveVars == <<event_resolve_lock, resolve_started, resolve_done, built_unresolved>>
cuVars == <<session_state, catching_up, mem_state, scheduled, cu_pc, state,
            requests, responses, cu_result, fed>>
normVars == <<handled, gaps>>
otherVars == <<other_pc, other_state, other_requests>>
kaVars == <<ka_pc, connected, now, last_request, ka_cycle>>
auxVars == <<normVars, otherVars, kaVars>>
vars == <<regVars, taskVars, resolveVars, cuVars, auxVars>>

\* ----------------------------------------------------------------- helpers
Last(s) == s[Len(s)]
DelAt(s, i) == SubSeq(s, 1, i - 1) \o SubSeq(s, i + 1, Len(s))
Range(s) == {s[i] : i \in 1..Len(s)}

\* The classes a matcher class derives from, itself included.
Bases(t) == IF t = "MessageEdited" THEN {"MessageEdited", "NewMessage"} ELSE {t}
\* isinstance(ev, event) for a matcher instance ev and a class event.
IsInstance(ev, event) == event.type \in Bases(ev.type)
\* builder.build(update) returns an event (TRUE) or None (FALSE).
Build(ev, u) ==
    CASE ev.type = "Raw" -> TRUE
      [] ev.type = "NewMessage" -> u = "UpdateNewMessage"
      [] ev.type = "MessageEdited" -> u = "UpdateEditMessage"

\* ------------------------------------------------------------ the registry
\* The arguments a caller can pass as event.
EventArgs(instances) == {NoEvent} \cup {Class(t) : t \in EventTypes} \cup instances

\* The matcher instances a caller can still hold a reference to.
Instances == {event_builders[i].ev : i \in 1..Len(event_builders)}
                 \cup Range(events_pending_resolve)

\* add_event_handler lines 72-75: event is a class (instantiated), None
\* (events.Raw()) or a matcher instance (used as it is).
NewEvent(event, id) ==
    IF event = NoEvent THEN [id |-> id, type |-> "Raw"]
    ELSE IF event.id = 0 THEN [id |-> id, type |-> event.type]
    ELSE event

\* Lines 77-78 applied to the two lists; n is the number of the call.
AddResult(bs, pending, n, callback, event) ==
    LET ev == NewEvent(event, n)
    IN [pending |-> Append(pending, ev),
        builders |-> Append(bs, [rid |-> n, ev |-> ev, cb |-> callback])]

AddEventHandler(callback, event) ==
    /\ nadds < MaxAdds
    /\ LET r == AddResult(event_builders, events_pending_resolve, nadds + 1,
                          callback, event)
       IN /\ events_pending_resolve' = r.pending
          /\ event_builders' = r.builders
    /\ nadds' = nadds + 1
    /\ UNCHANGED <<found, taskVars, resolveVars, cuVars, auxVars>>

\* remove_event_handler, line 88-89: an instance is replaced by its class.
EventClass(event) ==
    IF event # NoEvent /\ event.id # 0 THEN Class(event.type) ELSE event

\* The test of line 95, for the entry reg and the normalized class event.
Matches(reg, callback, event) ==
    reg.cb = callback /\ (event = NoEvent \/ IsInstance(reg.ev, event))

\* The loop of lines 91-97: i counts down from len(builders); bs[i] here is
\* self._event_builders[i] after "i -= 1".
RECURSIVE RemoveLoopSkipping(_, _, _, _, _)
RemoveLoopSkipping(bs, i, callback, event, n) ==
    IF i <= 0 THEN [builders |-> bs, found |-> n]
    ELSE IF Matches(bs[i], callback, event)
         THEN RemoveLoopSkipping(DelAt(bs, i), i - 2, callback, event, n + 1)
         ELSE RemoveLoopSkipping(bs, i - 1, callback, event, n)

RECURSIVE RemoveLoop(_, _, _, _, _)
RemoveLoop(bs, i, callback, event, n) ==
    IF i = 0 THEN [builders |-> bs, found |-> n]
    ELSE IF Matches(bs[i], callback, event)
         THEN RemoveLoop(DelAt(bs, i), i - 1, callback, event, n + 1)
         ELSE RemoveLoop(bs, i - 1, callback, event, n)

RemoveEventHandler(callback, event) ==
    LET r == RemoveLoop(event_builders, Len(event_builders), callback,
                        EventClass(event), 0)
    IN /\ event_builders' = r.builders
       /\ found' = r.found
       /\ UNCHANGED <<events_pending_resolve, nadds, taskVars, resolveVars, cuVars, auxVars>>

\* list_event_handlers: the (callback, event) pairs in registration order.
ListEventHandlers(bs) == [i \in 1..Len(bs) |-> <<bs[i].cb, bs[i].ev>>]

\* ---------------------------------------------------------- the dispatcher
\* The for loop of line 240 from iterator position i: the index of the first
\* entry whose build(update) returns an event, len + 1 when there is none.
RECURSIVE Scan(_, _, _)
Scan(bs, i, u) ==
    IF i > Len(bs) THEN i
    ELSE IF Build(bs[i].ev, u) THEN i
    ELSE Scan(bs, i + 1, u)

\* The matcher instances build() is called on while scanning from i.
BuiltFrom(bs, i, u) ==
    LET j == Scan(bs, i, u)
    IN {bs[k].ev.id : k \in i..(IF j > Len(bs) THEN Len(bs) ELSE j)}

\* Task d runs the loop of lines 240-261 from iterator position i until it
\* suspends in "await callback(event)" or the list is exhausted. rd is the
\* resolve() completions at this moment.
RunBuilders(d, i, rd) ==
    LET bs == event_builders
        j == Scan(bs, i, update[d])
    IN /\ built_unresolved' = built_unresolved \cup
              {m \in BuiltFrom(bs, i, update[d]) : rd[m] = 0}
       /\ builders_it' = [builders_it EXCEPT ![d] = IF j > Len(bs) THEN j ELSE j + 1]
       /\ IF j > Len(bs)
          THEN /\ pc' = [pc EXCEPT ![d] = "done"]
               /\ UNCHANGED <<invoked, task_callback>>
          ELSE /\ pc' = [pc EXCEPT ![d] = "callback"]
               /\ invoked' = [invoked EXCEPT ![d] = Append(@, bs[j].rid)]
               /\ task_callback' = [task_callback EXCEPT ![d] = bs[j].cb]

\* self._events_pending_resolve.clear(), line 238.
Clear(pending) == <<>>

\* Task d holds the lock and continues "for event in
\* self._events_pending_resolve" (lines 235-236) at index k; when the list is
\* exhausted it releases the lock, clears the list (line 238) and goes on to
\* the builders. w is the lock's waiters, rd the resolve() completions.
ResolveLoop(d, k, w, rd) ==
    IF k <= Len(events_pending_resolve)
    THEN /\ event_resolve_lock' = [locked |-> TRUE, waiters |-> w]
         /\ resolve_started' = [resolve_started EXCEPT
                                   ![events_pending_resolve[k].id] = @ + 1]
         /\ resolve_it' = [resolve_it EXCEPT ![d] = k]
         /\ pc' = [pc EXCEPT ![d] = "resolve"]
         /\ UNCHANGED <<events_pending_resolve, builders_it, invoked, task_callback,
                        built_unresolved>>
    ELSE /\ event_resolve_lock' = [locked |-> FALSE, waiters |-> w]
         /\ events_pending_resolve' = Clear(events_pending_resolve)
         /\ resolve_it' = [resolve_it EXCEPT ![d] = 0]
         /\ UNCHANGED resolve_started
         /\ RunBuilders(d, 1, rd)

\* asyncio.Lock.acquire returns at once when the lock is free and nobody
\* waits for it; otherwise the caller queues up and suspends.
LockFree == ~event_resolve_lock.locked /\ event_resolve_lock.waiters = <<>>

\* self._loop.create_task(self._dispatch_update(update)), line 183.
CreateTask(u) ==
    /\ ntasks < MaxDispatch
    /\ ntasks' = ntasks + 1
    /\ pc' = [pc EXCEPT ![ntasks + 1] = "start"]
    /\ update' = [update EXCEPT ![ntasks + 1] = u]
    /\ UNCHANGED <<regVars, resolve_it, builders_it, invoked, task_callback, last_out,
                   resolveVars, cuVars, auxVars>>

\* The first run of the task, lines 229-240, up to its first suspension.
DispatchStart(d) ==
    /\ pc[d] = "start"
    /\ UNCHANGED <<event_builders, nadds, found, ntasks, update, last_out,
                   resolve_done, cuVars, auxVars>>
    /\ IF events_pending_resolve = <<>>
       THEN /\ RunBuilders(d, 1, resolve_done)
            /\ UNCHANGED <<events_pending_resolve, event_resolve_lock,
                           resolve_started, resolve_it>>
       ELSE IF event_resolve_lock.locked
       THEN \* lines 230-232: wait for whoever resolves
            /\ event_resolve_lock' = [event_resolve_lock EXCEPT
                                         !.waiters = Append(@, d)]
            /\ pc' = [pc EXCEPT ![d] = "wait_pass"]
            /\ UNCHANGED <<events_pending_resolve, resolve_started, resolve_it,
                           builders_it, invoked, task_callback, built_unresolved>>
       ELSE IF LockFree
       THEN \* lines 234-236: take the lock and resolve
            ResolveLoop(d, 1, <<>>, resolve_done)
       ELSE \* line 234 with a woken waiter still queued: queue up behind it
            /\ event_resolve_lock' = [event_resolve_lock EXCEPT
                                         !.waiters = Append(@, d)]
            /\ pc' = [pc EXCEPT ![d] = "wait_resolve"]
            /\ UNCHANGED <<events_pending_resolve, resolve_started, resolve_it,
                           builders_it, invoked, task_callback, built_unresolved>>

\* "await event.resolve(self)" of task d returns, line 236.
ResolveReturn(d) ==
    /\ pc[d] = "resolve"
    /\ resolve_done' = [resolve_done EXCEPT
                           ![events_pending_resolve[resolve_it[d]].id] = @ + 1]
    /\ ResolveLoop(d, resolve_it[d] + 1, event_resolve_lock.waiters, resolve_done')
    /\ UNCHANGED <<event_builders, nadds, found, ntasks, update, last_out, cuVars, auxVars>>

\* "await event.resolve(self)" of task d raises, line 236: the exception
\* leaves the "async with", which releases the lock, and ends the task; line
\* 238 is not reached, so the pending list stays as it is.
ResolveRaise(d) ==
    /\ pc[d] = "resolve"
    /\ event_resolve_lock' = [event_resolve_lock EXCEPT !.locked = FALSE]
    /\ pc' = [pc EXCEPT ![d] = "failed"]
    /\ resolve_it' = [resolve_it EXCEPT ![d] = 0]
    /\ UNCHANGED <<regVars, ntasks, update, builders_it, invoked, last_out,
                   task_callback, resolve_started, resolve_done, built_unresolved,
                   cuVars, auxVars>>

\* The lock was released and task d, first in its queue, gets it.
LockAcquired(d) ==
    /\ pc[d] \in {"wait_pass", "wait_resolve"}
    /\ ~event_resolve_lock.locked
    /\ event_resolve_lock.waiters # <<>>
    /\ Head(event_resolve_lock.waiters) = d
    /\ UNCHANGED <<event_builders, nadds, found, ntasks, update, last_out,
                   resolve_done, cuVars, auxVars>>
    /\ IF pc[d] = "wait_pass"
       THEN \* lines 231-232 and 238: the body is "pass"
            /\ event_resolve_lock' = [locked |-> FALSE,
                                      waiters |-> Tail(event_resolve_lock.waiters)]
            /\ events_pending_resolve' = Clear(events_pending_resolve)
            /\ UNCHANGED <<resolve_started, resolve_it>>
            /\ RunBuilders(d, 1, resolve_done)
       ELSE ResolveLoop(d, 1, Tail(event_resolve_lock.waiters), resolve_done)

\* What the try statement of lines 249-261 does with the outcome of the
\* awaited callback: "break", "continue" with the next entry, or "propagate"
\* a failure out of the task. Both except clauses format callback.__name__
\* (lines 255 and 261) before they break or go on: for a callback without
\* that attribute the AttributeError raised there leaves the task.
AfterCallbackIgnoringStop(out, callback) ==
    IF out = "return" \/ HasName(callback) THEN "continue" ELSE "propagate"

AfterCallback(out, callback) ==
    IF out = "return" THEN "continue"
    ELSE IF ~HasName(callback) THEN "propagate"
    ELSE IF out = "StopPropagation" THEN "break" ELSE "continue"

\* "await callback(event)" of task d ends with outcome out, line 250.
CallbackReturn(d, out) ==
    /\ pc[d] = "callback"
    /\ last_out' = [last_out EXCEPT ![d] = out]
    /\ LET next == AfterCallback(out, task_callback[d])
       IN IF next = "continue"
          THEN RunBuilders(d, builders_it[d], resolve_done)
          ELSE /\ pc' = [pc EXCEPT ![d] = IF next = "break" THEN "stopped" ELSE "failed"]
               /\ UNCHANGED <<builders_it, invoked, task_callback, built_unresolved>>
    /\ UNCHANGED <<regVars, ntasks, update, resolve_it,
                   event_resolve_lock, resolve_started, resolve_done, cuVars, auxVars>>

\* ---------------------------------------------------------- the normalizer
\* The value of a field an update object does not have (hasattr is false).
Absent == -1

\* An update state (types.updates.State), and "no state stored" (None).
State(pts, qts, date, seq) ==
    [none |-> FALSE, pts |-> pts, qts |-> qts, date |-> date, seq |-> seq]
NoState == [none |-> TRUE, pts |-> 0, qts |-> 0, date |-> 0, seq |-> 0]

\* A single update item with the given pts field (Absent when it has none).
Leaf(kind, pts) ==
    [kind |-> kind, pts |-> pts, date |-> Absent, seq |-> Absent, updates |-> <<>>]
\* types.Updates(users, chats, date, seq, updates).
UpdatesEnvelope(updates, date, seq) ==
    [kind |-> "Updates", pts |-> Absent, date |-> date, seq |-> seq,
     updates |-> updates]
\* types.UpdateShort(update, date).
UpdateShort(u, date) ==
    [kind |-> "UpdateShort", pts |-> Absent, date |-> date, seq |-> Absent,
     updates |-> <<u>>]

\* Lines 185-193: the cursor st after the update u went by.
Advance(st, u) ==
    [st EXCEPT !.pts = IF u.pts # Absent THEN u.pts ELSE @,
               !.date = IF u.date # Absent THEN u.date ELSE @,
               !.seq = IF u.seq # Absent THEN u.seq ELSE @]

\* Lines 186-188: need_diff for the update u met with the cursor st.
NeedDiffFromOne(st, u) == u.pts # Absent /\ st.pts # 0 /\ (u.pts - st.pts) >= 1

NeedDiff(st, u) == u.pts # Absent /\ st.pts # 0 /\ (u.pts - st.pts) > 1

\* _handle_update(update), lines 171-193, run with the cursor st and the
\* list sched of the updates given to create_task so far. gaps lists, for
\* every update with a pts field the call went through, the cursor's pts it
\* was compared with, its pts and the need_diff computed for it.
RECURSIVE HandleUpdate(_, _, _)
RECURSIVE HandleEach(_, _, _)
HandleUpdate(st, sched, u) ==
    LET a == IF u.kind \in {"Updates", "UpdatesCombined"}
             THEN HandleEach(st, sched, u.updates)
             ELSE [state |-> st, scheduled |-> sched, gaps |-> <<>>]
        b == IF u.kind = "UpdateShort"
             THEN HandleUpdate(a.state, a.scheduled, u.updates[1])
             ELSE [state |-> a.state, scheduled |-> Append(a.scheduled, u.kind),
                   gaps |-> <<>>]
        g == IF u.pts # Absent
             THEN <<[old |-> b.state.pts, new |-> u.pts,
                     need_diff |-> NeedDiff(b.state, u)]>>
             ELSE <<>>
    IN [state |-> Advance(b.state, u),
        scheduled |-> b.scheduled,
        need_diff |-> NeedDiff(b.state, u),
        gaps |-> a.gaps \o b.gaps \o g]

\* The loop of lines 176-178 over the embedded updates us.
HandleEach(st, sched, us) ==
    IF us = <<>> THEN [state |-> st, scheduled |-> sched, gaps |-> <<>>]
    ELSE LET h == HandleUpdate(st, sched, Head(us))
             r == HandleEach(h.state, h.scheduled, Tail(us))
         IN [state |-> r.state, scheduled |-> r.scheduled, gaps |-> h.gaps \o r.gaps]

\* The envelopes the transport delivers: single update items with and without
\* a pts field, batches of up to two of them, and shorthands.
LeafPts == {1, 2, 3, 4}
Leaves == {Leaf("UpdateUserStatus", Absent)}
              \cup {Leaf("UpdateNewMessage", p) : p \in LeafPts}
\* types.Updates or types.UpdatesCombined with the embedded updates us.
Batch(kind, us, date, seq) ==
    [kind |-> kind, pts |-> Absent, date |-> date, seq |-> seq, updates |-> us]
Batches ==
    {Batch(k, us, 1, 1) : k \in {"Updates", "UpdatesCombined"},
                          us \in UNION {[1..n -> Leaves] : n \in 0..2}}
Envelopes == Leaves \cup Batches \cup {UpdateShort(u, 1) : u \in Leaves}

\* The transport calls _handle_update(u), lines 171-193.
HandleEnvelope(u) ==
    /\ Len(handled) < MaxEnvelopes
    /\ handled' = Append(handled, u)
    /\ LET h == HandleUpdate(mem_state, scheduled, u)
       IN /\ mem_state' = h.state
          /\ scheduled' = h.scheduled
          /\ gaps' = h.gaps
    /\ UNCHANGED <<session_state, catching_up, cu_pc, state, requests, responses,
                   cu_result, fed>>
    /\ UNCHANGED <<regVars, taskVars, resolveVars, otherVars, kaVars>>

\* ---------------------------------------------------------- the reconciler
\* The cursor values the server and the storage use here.
PtsValues == {3, 5, 10}
\* The states a Difference or DifferenceSlice carries: date and seq differ.
ServerStates == {State(p, 0, t, 3 - t) : p \in PtsValues, t \in {1, 2}}
\* What a Difference or DifferenceSlice carries besides its state.
Contents == {[other_updates |-> <<>>, new_messages |-> 0],
             [other_updates |-> <<Leaf("UpdateDeleteMessages", 7)>>, new_messages |-> 0],
             [other_updates |-> <<>>, new_messages |-> 1]}
\* What the storage holds when catch_up is called.
StoredStates == {NoState, State(0, 0, 0, 0), State(3, 0, 0, 0)}

DifferenceEmpty(date, seq) ==
    [kind |-> "DifferenceEmpty", state |-> NoState, date |-> date, seq |-> seq,
     other_updates |-> <<>>, new_messages |-> 0]
Difference(st, c) ==
    [kind |-> "Difference", state |-> st, date |-> 0, seq |-> 0,
     other_updates |-> c.other_updates, new_messages |-> c.new_messages]
DifferenceSlice(st, c) ==
    [kind |-> "DifferenceSlice", state |-> st, date |-> 0, seq |-> 0,
     other_updates |-> c.other_updates, new_messages |-> c.new_messages]
DifferenceTooLong ==
    [kind |-> "DifferenceTooLong", state |-> NoState, date |-> 0, seq |-> 0,
     other_updates |-> <<>>, new_messages |-> 0]
\* The awaited request raised instead of returning an answer.
RequestError ==
    [kind |-> "RequestError", state |-> NoState, date |-> 0, seq |-> 0,
     other_updates |-> <<>>, new_messages |-> 0]

\* The answers the server can give to a GetDifferenceRequest.
Answers ==
    {DifferenceEmpty(d, q) : d \in {1, 2}, q \in {1, 2}}
        \cup {Difference(st, c) : st \in ServerStates, c \in Contents}
        \cup {DifferenceSlice(st, c) : st \in ServerStates, c \in Contents}
        \cup {DifferenceTooLong}

\* functions.updates.GetDifferenceRequest(state.pts, state.date, state.qts).
GetDifferenceRequest(st) == [pts |-> st.pts, date |-> st.date, qts |-> st.qts]

\* Lines 134-162: what the answer d does to the local state st, whether the
\* loop goes on, and whether the answer is fed to _handle_update.
ReconcileAdoptingAny(st, d) ==
    CASE d.kind = "DifferenceEmpty" ->
             [state |-> [st EXCEPT !.date = d.date, !.seq = d.seq],
              next |-> "break", feed |-> FALSE]
      [] d.kind \in {"Difference", "DifferenceSlice"} ->
             [state |-> d.state, next |-> "continue", feed |-> TRUE]
      [] d.kind = "DifferenceTooLong" ->
             [state |-> st, next |-> "break", feed |-> FALSE]

ReconcileKeepingDate(st, d) ==
    CASE d.kind = "DifferenceEmpty" ->
             [state |-> [st EXCEPT !.seq = d.seq], next |-> "break", feed |-> FALSE]
      [] d.kind = "Difference" ->
             [state |-> d.state, next |-> "continue", feed |-> TRUE]
      [] d.kind = "DifferenceSlice" ->
             IF d.state.pts > st.pts
             THEN [state |-> d.state, next |-> "continue", feed |-> TRUE]
             ELSE [state |-> st, next |-> "break", feed |-> FALSE]
      [] d.kind = "DifferenceTooLong" ->
             [state |-> st, next |-> "break", feed |-> FALSE]

ReconcileRetryingTooLong(st, d) ==
    CASE d.kind = "DifferenceEmpty" ->
             [state |-> [st EXCEPT !.date = d.date, !.seq = d.seq],
              next |-> "break", feed |-> FALSE]
      [] d.kind = "Difference" ->
             [state |-> d.state, next |-> "continue", feed |-> TRUE]
      [] d.kind = "DifferenceSlice" ->
             IF d.state.pts > st.pts
             THEN [state |-> d.state, next |-> "continue", feed |-> TRUE]
             ELSE [state |-> st, next |-> "break", feed |-> FALSE]
      [] d.kind = "DifferenceTooLong" ->
             [state |-> st, next |-> "continue", feed |-> FALSE]

Reconcile(st, d) ==
    CASE d.kind = "DifferenceEmpty" ->
             [state |-> [st EXCEPT !.date = d.date, !.seq = d.seq],
              next |-> "break", feed |-> FALSE]
      [] d.kind = "Difference" ->
             [state |-> d.state, next |-> "continue", feed |-> TRUE]
      [] d.kind = "DifferenceSlice" ->
             IF d.state.pts > st.pts
             THEN [state |-> d.state, next |-> "continue", feed |-> TRUE]
             ELSE [state |-> st, next |-> "break", feed |-> FALSE]
      [] d.kind = "DifferenceTooLong" ->
             [state |-> st, next |-> "break", feed |-> FALSE]

\* The types.Updates of lines 151-160, built from the answer d once st is
\* the local state.
Synthesized(st, d) ==
    UpdatesEnvelope(d.other_updates \o
                        [i \in 1..d.new_messages |-> Leaf("UpdateNewMessage", 0)],
                    st.date, st.seq)

\* The finally clause, lines 163-165: what the storage holds and what the
\* flag is when catch_up ends with the local state st; stored is what the
\* storage held, raised tells whether a failure is leaving the loop.
CleanupOnReturnOnly(stored, st, raised) ==
    IF raised THEN [session_state |-> stored, catching_up |-> TRUE]
    ELSE [session_state |-> st, catching_up |-> FALSE]

Cleanup(stored, st, raised) == [session_state |-> st, catching_up |-> FALSE]

\* catch_up leaves its loop with the local state st.
Finish(st, raised) ==
    /\ state' = st
    /\ session_state' = Cleanup(session_state, st, raised).session_state
    /\ catching_up' = Cleanup(session_state, st, raised).catching_up
    /\ cu_pc' = "done"
    /\ cu_result' = IF raised THEN "raised" ELSE "returned"

\* catch_up is called: lines 125-133, up to the first awaited request.
CatchUpStart ==
    /\ cu_pc = "idle"
    /\ state' = session_state
    /\ IF session_state.none \/ session_state.pts = 0
       THEN /\ cu_pc' = "done"
            /\ cu_result' = "returned"
            /\ UNCHANGED <<catching_up, requests>>
       ELSE /\ catching_up' = TRUE
            /\ requests' = Append(requests, GetDifferenceRequest(session_state))
            /\ cu_pc' = "request"
            /\ UNCHANGED cu_result
    /\ UNCHANGED <<session_state, mem_state, scheduled, responses, fed>>
    /\ UNCHANGED <<regVars, taskVars, resolveVars, auxVars>>

\* The awaited request returns d, lines 132-162; fails tells whether
\* _handle_update raises when it is given the synthesized updates.
CatchUpAnswer(d, fails) ==
    /\ cu_pc = "request"
    /\ responses' = Append(responses, d)
    /\ LET r == Reconcile(state, d)
       IN /\ fails => r.feed
          /\ fed' = IF r.feed THEN Append(fed, Len(responses) + 1) ELSE fed
          /\ IF fails
             THEN /\ Finish(r.state, TRUE)
                  /\ UNCHANGED <<mem_state, scheduled, requests>>
             ELSE IF r.next = "break"
             THEN /\ Finish(r.state, FALSE)
                  /\ UNCHANGED <<mem_state, scheduled, requests>>
             ELSE /\ Len(requests) < MaxRequests
                  /\ LET h == IF r.feed
                              THEN HandleUpdate(mem_state, scheduled,
                                                Synthesized(r.state, d))
                              ELSE [state |-> mem_state, scheduled |-> scheduled]
                     IN /\ mem_state' = h.state
                        /\ scheduled' = h.scheduled
                  /\ state' = r.state
                  /\ requests' = Append(requests, GetDifferenceRequest(r.state))
                  /\ UNCHANGED <<session_state, catching_up, cu_pc, cu_result>>
    /\ UNCHANGED <<regVars, taskVars, resolveVars, auxVars>>

\* The awaited request raises, line 132.
CatchUpError ==
    /\ cu_pc = "request"
    /\ responses' = Append(responses, RequestError)
    /\ Finish(state, TRUE)
    /\ UNCHANGED <<mem_state, scheduled, requests, fed>>
    /\ UNCHANGED <<regVars, taskVars, resolveVars, auxVars>>

\* The step of CatchUpAnswer for a server that answers every request and a
\* _handle_update that does not raise, with the logs cut to the current
\* round, so that a behaviour can go on for as long as the loop does.
CatchUpRound(d) ==
    /\ cu_pc = "request"
    /\ responses' = <<d>>
    /\ LET r == Reconcile(state, d)
       IN /\ fed' = IF r.feed THEN <<1>> ELSE <<>>
          /\ IF r.next = "break"
             THEN /\ Finish(r.state, FALSE)
                  /\ UNCHANGED <<mem_state, scheduled, requests>>
             ELSE /\ LET h == IF r.feed
                              THEN HandleUpdate(mem_state, <<>>,
                                                Synthesized(r.state, d))
                              ELSE [state |-> mem_state, scheduled |-> <<>>]
                     IN /\ mem_state' = h.state
                        /\ scheduled' = h.scheduled
                  /\ state' = r.state
                  /\ requests' = <<GetDifferenceRequest(r.state)>>
                  /\ UNCHANGED <<session_state, catching_up, cu_pc, cu_result>>
    /\ UNCHANGED <<regVars, taskVars, resolveVars, auxVars>>

\* A second call of catch_up that overlaps the first one: the same code with
\* its own local variable state, sharing the storage, the flag and the cursor.
\* Lines 125-133, up to the first awaited request.
OtherStart ==
    /\ other_pc = "idle"
    /\ other_state' = session_state
    /\ IF session_state.none \/ session_state.pts = 0
       THEN /\ other_pc' = "done"
            /\ UNCHANGED <<catching_up, other_requests>>
       ELSE /\ catching_up' = TRUE
            /\ other_requests' = Append(other_requests,
                                        GetDifferenceRequest(session_state))
            /\ other_pc' = "request"
    /\ UNCHANGED <<session_state, mem_state, scheduled, cu_pc, state, requests,
                   responses, cu_result, fed>>
    /\ UNCHANGED <<regVars, taskVars, resolveVars, normVars, kaVars>>

\* The second call leaves its loop with the local state st, lines 163-165.
OtherFinish(st, raised) ==
    /\ other_state' = st
    /\ session_state' = Cleanup(session_state, st, raised).session_state
    /\ catching_up' = Cleanup(session_state, st, raised).catching_up
    /\ other_pc' = "done"
    /\ UNCHANGED <<mem_state, scheduled, other_requests>>

\* The request the second call awaits returns d, lines 132-162.
OtherAnswer(d) ==
    /\ other_pc = "request"
    /\ LET r == Reconcile(other_state, d)
       IN IF r.next = "break"
          THEN OtherFinish(r.state, FALSE)
          ELSE /\ Len(other_requests) < MaxRequests
               /\ LET h == IF r.feed
                           THEN HandleUpdate(mem_state, scheduled,
                                             Synthesized(r.state, d))
                           ELSE [state |-> mem_state, scheduled |-> scheduled]
                  IN /\ mem_state' = h.state
                     /\ scheduled' = h.scheduled
               /\ other_state' = r.state
               /\ other_requests' = Append(other_requests,
                                           GetDifferenceRequest(r.state))
               /\ UNCHANGED <<session_state, catching_up, other_pc>>
    /\ UNCHANGED <<cu_pc, state, requests, responses, cu_result, fed>>
    /\ UNCHANGED <<regVars, taskVars, resolveVars, normVars, kaVars>>

\* The request the second call awaits raises, line 132.
OtherError ==
    /\ other_pc = "request"
    /\ OtherFinish(other_state, TRUE)
    /\ UNCHANGED <<cu_pc, state, requests, responses, cu_result, fed>>
    /\ UNCHANGED <<regVars, taskVars, resolveVars, normVars, kaVars>>

\* ------------------------------------------------------ the keep-alive loop
\* timeout=60 of the wait for self.disconnected, line 203.
Timeout == 60
\* The age of the last request above which GetStateRequest is sent, line 220.
Interval == 30 * 60

\* What the last cycle of _update_loop whose wait timed out has done: whether
\* it sent the ping, made the test of line 220 and with which age of the last
\* request, what is_user_authorized() answered, whether it sent the
\* GetStateRequest, and whether it is over. Here: no such cycle yet.
NoCycle == [ping |-> FALSE, checked |-> FALSE, elapsed |-> 0, authorized |-> None,
            get_state |-> FALSE, over |-> FALSE]

\* The test of line 220 at time t with self._last_request = last.
NeedsGetStateAtInterval(t, last) == t - last >= Interval

NeedsGetState(t, last) == t - last > Interval

\* self(request) records the time t of the request as self._last_request.
Invoked(t) == t

\* "while self.is_connected()", line 200: the loop starts a cycle with the
\* wait of line 202, or ends.
LoopHead == IF connected THEN "wait" ELSE "exited"

\* The task of _update_loop runs for the first time.
KeepAliveStart ==
    /\ ka_pc = "idle"
    /\ ka_pc' = LoopHead
    /\ UNCHANGED <<connected, now, last_request, ka_cycle>>
    /\ UNCHANGED <<regVars, taskVars, resolveVars, cuVars, normVars, otherVars>>

\* The wait of line 202 times out, lines 206-221: the ping is sent, and
\* when the last request is old enough the loop awaits is_user_authorized().
WaitTimeout ==
    /\ ka_pc = "wait"
    /\ connected
    /\ now + Timeout <= MaxCycles * Timeout
    /\ now' = now + Timeout
    /\ IF NeedsGetState(now', last_request)
       THEN /\ ka_pc' = "auth"
            /\ ka_cycle' = [NoCycle EXCEPT !.ping = TRUE, !.checked = TRUE,
                                          !.elapsed = now' - last_request]
       ELSE \* the end of the loop body: next cycle
            /\ ka_pc' = LoopHead
            /\ ka_cycle' = [NoCycle EXCEPT !.ping = TRUE, !.checked = TRUE,
                                          !.elapsed = now' - last_request,
                                          !.over = TRUE]
    /\ UNCHANGED <<connected, last_request>>
    /\ UNCHANGED <<regVars, taskVars, resolveVars, cuVars, normVars, otherVars>>

\* self.disconnected completes and the wait returns, line 205.
WaitDisconnected ==
    /\ ka_pc = "wait"
    /\ ~connected
    /\ ka_pc' = LoopHead
    /\ UNCHANGED <<connected, now, last_request, ka_cycle>>
    /\ UNCHANGED <<regVars, taskVars, resolveVars, cuVars, normVars, otherVars>>

\* The wait raises something other than TimeoutError, lines 208-209.
WaitInterrupted ==
    /\ ka_pc = "wait"
    /\ ka_pc' = LoopHead
    /\ UNCHANGED <<connected, now, last_request, ka_cycle>>
    /\ UNCHANGED <<regVars, taskVars, resolveVars, cuVars, normVars, otherVars>>

\* "await self.is_user_authorized()" ends, lines 221-226: with "yes" the
\* GetStateRequest is sent and awaited, with "no" the loop continues, and a
\* failure leaves the coroutine.
AuthReturn(res) ==
    /\ ka_pc = "auth"
    /\ CASE res = "yes" ->
              /\ ka_pc' = "get_state"
              /\ ka_cycle' = [ka_cycle EXCEPT !.authorized = res, !.get_state = TRUE]
              /\ last_request' = Invoked(now)
         [] res = "no" ->
              /\ ka_pc' = LoopHead
              /\ ka_cycle' = [ka_cycle EXCEPT !.authorized = res, !.over = TRUE]
              /\ UNCHANGED last_request
         [] res = "raise" ->
              /\ ka_pc' = "failed"
              /\ ka_cycle' = [ka_cycle EXCEPT !.authorized = res, !.over = TRUE]
              /\ UNCHANGED last_request
    /\ UNCHANGED <<connected, now>>
    /\ UNCHANGED <<regVars, taskVars, resolveVars, cuVars, normVars, otherVars>>

\* "await self(functions.updates.GetStateRequest())" ends, line 226.
GetStateReturn(raises) ==
    /\ ka_pc = "get_state"
    /\ ka_pc' = IF raises THEN "failed" ELSE LoopHead
    /\ ka_cycle' = [ka_cycle EXCEPT !.over = TRUE]
    /\ UNCHANGED <<connected, now, last_request>>
    /\ UNCHANGED <<regVars, taskVars, resolveVars, cuVars, normVars, otherVars>>

\* Another task of the client sends a request with self(request).
UserRequest ==
    /\ connected
    /\ last_request # now
    /\ last_request' = Invoked(now)
    /\ UNCHANGED <<ka_pc, connected, now, ka_cycle>>
    /\ UNCHANGED <<regVars, taskVars, resolveVars, cuVars, normVars, otherVars>>

\* The client is disconnected.
Disconnect ==
    /\ connected
    /\ connected' = FALSE
    /\ UNCHANGED <<ka_pc, now, last_request, ka_cycle>>
    /\ UNCHANGED <<regVars, taskVars, resolveVars, cuVars, normVars, otherVars>>

\* ------------------------------------------------------ the specifications
\* catch_up has not been called; the storage holds stored.
NoCatchUp(stored) ==
    /\ session_state = stored
    /\ catching_up = FALSE
    /\ mem_state = IF stored.none THEN State(0, 0, 0, 0) ELSE stored
    /\ scheduled = <<>>
    /\ cu_pc = "idle"
    /\ state = NoState
    /\ requests = <<>>
    /\ responses = <<>>
    /\ cu_result = None
    /\ fed = <<>>
    /\ handled = <<>>
    /\ gaps = <<>>
    /\ other_pc = "idle"
    /\ other_state = NoState
    /\ other_requests = <<>>
    /\ ka_pc = "idle"
    /\ connected = TRUE
    /\ now = 0
    /\ last_request = 0
    /\ ka_cycle = NoCycle

NoTasks ==
    /\ ntasks = 0
    /\ pc = [d \in Tasks |-> "none"]
    /\ update = [d \in Tasks |-> None]
    /\ resolve_it = [d \in Tasks |-> 0]
    /\ builders_it = [d \in Tasks |-> 1]
    /\ invoked = [d \in Tasks |-> <<>>]
    /\ last_out = [d \in Tasks |-> None]
    /\ task_callback = [d \in Tasks |-> None]

\* The state after construction: nothing registered, nothing dispatched.
Init ==
    /\ event_builders = <<>>
    /\ events_pending_resolve = <<>>
    /\ event_resolve_lock = [locked |-> FALSE, waiters |-> <<>>]
    /\ nadds = 0
    /\ found = 0
    /\ NoTasks
    /\ resolve_started = [m \in MatcherIds |-> 0]
    /\ resolve_done = [m \in MatcherIds |-> 0]
    /\ built_unresolved = {}
    /\ NoCatchUp(NoState)

Next ==
    \/ \E cb \in Callbacks, ev \in EventArgs(Instances) : AddEventHandler(cb, ev)
    \/ \E cb \in Callbacks, ev \in EventArgs(Instances) : RemoveEventHandler(cb, ev)
    \/ \E u \in Updates : CreateTask(u)
    \/ \E d \in Tasks : DispatchStart(d)
    \/ \E d \in Tasks : ResolveReturn(d)
    \/ \E d \in Tasks : ResolveRaise(d)
    \/ \E d \in Tasks : LockAcquired(d)
    \/ \E d \in Tasks, out \in Outcomes : CallbackReturn(d, out)

\* The whole client: handlers are added and removed while updates are dispatched.
Spec == Init /\ [][Next]_vars

\* The two lists after n add_event_handler calls, call i made with callback
\* c[i] and matcher class t[i].
RECURSIVE AddAll(_, _, _)
AddAll(t, c, n) ==
    IF n = 0 THEN [pending |-> <<>>, builders |-> <<>>]
    ELSE LET r == AddAll(t, c, n - 1)
         IN AddResult(r.builders, r.pending, n, c[n], Class(t[n]))

\* n handlers were registered and nothing has been dispatched yet.
Registered(n) ==
    /\ nadds = n
    /\ \E t \in [1..n -> EventTypes], c \in [1..n -> Callbacks] :
          /\ event_builders = AddAll(t, c, n).builders
          /\ events_pending_resolve = AddAll(t, c, n).pending
    /\ event_resolve_lock = [locked |-> FALSE, waiters |-> <<>>]
    /\ found = 0
    /\ resolve_started = [m \in MatcherIds |-> 0]
    /\ resolve_done = [m \in MatcherIds |-> 0]
    /\ built_unresolved = {}
    /\ NoCatchUp(NoState)

\* The resolve barrier alone: N matchers are registered, then M > 1 dispatch
\* tasks are created together, and nothing is registered afterwards.
InitBarrier ==
    /\ \E n \in 1..MaxAdds : Registered(n)
    /\ \E m \in 2..MaxDispatch :
          /\ ntasks = m
          /\ pc = [d \in Tasks |-> IF d <= m THEN "start" ELSE "none"]
          /\ \E us \in [Tasks -> Updates] :
                update = [d \in Tasks |-> IF d <= m THEN us[d] ELSE None]
    /\ resolve_it = [d \in Tasks |-> 0]
    /\ builders_it = [d \in Tasks |-> 1]
    /\ invoked = [d \in Tasks |-> <<>>]
    /\ last_out = [d \in Tasks |-> None]
    /\ task_callback = [d \in Tasks |-> None]

NextBarrier ==
    \/ \E d \in Tasks : DispatchStart(d)
    \/ \E d \in Tasks : ResolveReturn(d)
    \/ \E d \in Tasks : ResolveRaise(d)
    \/ \E d \in Tasks : LockAcquired(d)
    \/ \E d \in Tasks, out \in Outcomes : CallbackReturn(d, out)

SpecBarrier == InitBarrier /\ [][NextBarrier]_vars

\* The handler chain alone: n handlers were registered and resolved by an
\* earlier dispatch; from then on handlers are only removed while updates
\* are dispatched.
InitHandlers ==
    /\ \E n \in 1..MaxAdds :
          /\ nadds = n
          /\ \E t \in [1..n -> EventTypes], c \in [1..n -> Callbacks] :
                event_builders = AddAll(t, c, n).builders
          /\ resolve_started = [m \in MatcherIds |-> IF m <= n THEN 1 ELSE 0]
          /\ resolve_done = [m \in MatcherIds |-> IF m <= n THEN 1 ELSE 0]
    /\ events_pending_resolve = <<>>
    /\ event_resolve_lock = [locked |-> FALSE, waiters |-> <<>>]
    /\ found = 0
    /\ built_unresolved = {}
    /\ NoTasks
    /\ NoCatchUp(NoState)

NextHandlers ==
    \/ \E cb \in Callbacks, ev \in EventArgs(Instances) : RemoveEventHandler(cb, ev)
    \/ \E u \in Updates : CreateTask(u)
    \/ \E d \in Tasks : DispatchStart(d)
    \/ \E d \in Tasks, out \in Outcomes : CallbackReturn(d, out)

SpecHandlers == InitHandlers /\ [][NextHandlers]_vars

\* Concurrent dispatches over a registry that does not change: n handlers
\* were registered and resolved by an earlier dispatch.
InitDispatch ==
    /\ \E n \in 1..MaxAdds :
          /\ nadds = n
          /\ \E t \in [1..n -> EventTypes], c \in [1..n -> Callbacks] :
                event_builders = AddAll(t, c, n).builders
          /\ resolve_started = [m \in MatcherIds |-> IF m <= n THEN 1 ELSE 0]
          /\ resolve_done = [m \in MatcherIds |-> IF m <= n THEN 1 ELSE 0]
    /\ events_pending_resolve = <<>>
    /\ event_resolve_lock = [locked |-> FALSE, waiters |-> <<>>]
    /\ found = 0
    /\ built_unresolved = {}
    /\ NoTasks
    /\ NoCatchUp(NoState)

NextDispatch ==
    \/ \E u \in Updates : CreateTask(u)
    \/ \E d \in Tasks : DispatchStart(d)
    \/ \E d \in Tasks, out \in Outcomes : CallbackReturn(d, out)

SpecDispatch == InitDispatch /\ [][NextDispatch]_vars

\* The registry alone: remove_event_handler applied to any list of at most
\* MaxLen registrations.
InitRegistry ==
    /\ \E n \in 0..MaxLen :
          /\ nadds = n
          /\ \E t \in [1..n -> EventTypes], c \in [1..n -> Callbacks] :
                /\ event_builders = AddAll(t, c, n).builders
                /\ events_pending_resolve = AddAll(t, c, n).pending
    /\ event_resolve_lock = [locked |-> FALSE, waiters |-> <<>>]
    /\ found = 0
    /\ resolve_started = [m \in MatcherIds |-> 0]
    /\ resolve_done = [m \in MatcherIds |-> 0]
    /\ built_unresolved = {}
    /\ NoTasks
    /\ NoCatchUp(NoState)

NextRegistry ==
    \E cb \in Callbacks, ev \in EventArgs(Instances) : RemoveEventHandler(cb, ev)

SpecRegistry == InitRegistry /\ [][NextRegistry]_vars

\* catch_up alone: it is called once, with any of the stored states, and the
\* server answers each request with any of its answers or not at all.
InitCatchUp ==
    /\ event_builders = <<>>
    /\ events_pending_resolve = <<>>
    /\ event_resolve_lock = [locked |-> FALSE, waiters |-> <<>>]
    /\ nadds = 0
    /\ found = 0
    /\ NoTasks
    /\ resolve_started = [m \in MatcherIds |-> 0]
    /\ resolve_done = [m \in MatcherIds |-> 0]
    /\ built_unresolved = {}
    /\ \E stored \in StoredStates : NoCatchUp(stored)

NextCatchUp ==
    \/ CatchUpStart
    \/ \E d \in Answers, fails \in BOOLEAN : CatchUpAnswer(d, fails)
    \/ CatchUpError

SpecCatchUp == InitCatchUp /\ [][NextCatchUp]_vars

\* catch_up with a server that answers every request, sooner or later.
NextCatchUpLive ==
    \/ CatchUpStart
    \/ \E d \in Answers : CatchUpRound(d)

SpecCatchUpLive ==
    /\ InitCatchUp
    /\ [][NextCatchUpLive]_vars
    /\ WF_vars(CatchUpStart)
    /\ WF_vars(\E d \in Answers : CatchUpRound(d))

\* Two calls of catch_up at once, the server giving one answer of each kind.
OverlapAnswers ==
    {DifferenceEmpty(1, 1),
     Difference(State(5, 0, 1, 2), [other_updates |-> <<>>, new_messages |-> 0]),
     DifferenceSlice(State(10, 0, 2, 1), [other_updates |-> <<>>, new_messages |-> 1]),
     DifferenceTooLong}

NextOverlap ==
    \/ CatchUpStart
    \/ \E d \in OverlapAnswers, fails \in BOOLEAN : CatchUpAnswer(d, fails)
    \/ CatchUpError
    \/ OtherStart
    \/ \E d \in OverlapAnswers : OtherAnswer(d)
    \/ OtherError

SpecOverlap == InitCatchUp /\ [][NextOverlap]_vars

\* The keep-alive loop alone, with other tasks sending requests and the
\* client being disconnected at any time.
NextKeepAlive ==
    \/ KeepAliveStart
    \/ WaitTimeout
    \/ WaitDisconnected
    \/ WaitInterrupted
    \/ \E res \in {"yes", "no", "raise"} : AuthReturn(res)
    \/ \E raises \in BOOLEAN : GetStateReturn(raises)
    \/ UserRequest
    \/ Disconnect

SpecKeepAlive == Init /\ [][NextKeepAlive]_vars

\* The normalizer alone: the cursor is unset or holds pts 1, and the transport
\* delivers envelopes one after the other.
InitNormalize ==
    /\ event_builders = <<>>
    /\ events_pending_resolve = <<>>
    /\ event_resolve_lock = [locked |-> FALSE, waiters |-> <<>>]
    /\ nadds = 0
    /\ found = 0
    /\ NoTasks
    /\ resolve_started = [m \in MatcherIds |-> 0]
    /\ resolve_done = [m \in MatcherIds |-> 0]
    /\ built_unresolved = {}
    /\ \E stored \in {NoState, State(1, 0, 0, 0)} : NoCatchUp(stored)

NextNormalize == \E u \in Envelopes : HandleEnvelope(u)

SpecNormalize == InitNormalize /\ [][NextNormalize]_vars

\* ---------------------------------------------------------------- claims
\* The tasks that are past the resolve barrier of lines 229-238: in the loop
\* over the registrations, or through with it.
PastBarrier ==
    {d \in Tasks : \/ pc[d] \in {"callback", "done", "stopped"}
                   \/ pc[d] = "failed" /\ last_out[d] # None}

\* The registrations of the list whose matcher builds an event from u, as
\* registration numbers in list order.
RECURSIVE AcceptedRids(_, _)
AcceptedRids(bs, u) ==
    IF bs = <<>> THEN <<>>
    ELSE (IF Build(Head(bs).ev, u) THEN <<Head(bs).rid>> ELSE <<>>)
             \o AcceptedRids(Tail(bs), u)

\* C1: with N distinct matchers registered before M > 1 concurrent dispatches,
\* no matcher's resolve step is ever started twice, at most one dispatch is
\* inside the resolution pass, a dispatch that waits holds no resolve step,
\* and once any dispatch is past the barrier every matcher has been resolved
\* exactly once.
ResolveExactlyOnce ==
    /\ \A m \in 1..nadds : resolve_started[m] <= 1 /\ resolve_done[m] <= resolve_started[m]
    /\ Cardinality({d \in Tasks : pc[d] = "resolve"}) <= 1
    /\ \A d \in Tasks : pc[d] = "resolve" => event_resolve_lock.locked
    /\ PastBarrier # {} =>
          \A m \in 1..nadds : resolve_started[m] = 1 /\ resolve_done[m] = 1

\* C2: no dispatch calls build(update) on a matcher instance before a
\* resolve step of that instance has completed.
ResolveBeforeUse == built_unresolved = {}

\* C3: a callback that raises never makes the dispatch task fail or end its
\* loop: the task goes on to the next registration, and every dispatch calls
\* all the registrations that accept its update, up to where it is.
FailureIsolated ==
    \A d \in Tasks :
        LET acc == AcceptedRids(event_builders, update[d])
        IN /\ last_out[d] = "raise" => pc[d] \in {"callback", "done"}
           /\ pc[d] \in {"callback", "done", "stopped"} =>
                 /\ Len(invoked[d]) <= Len(acc)
                 /\ invoked[d] = SubSeq(acc, 1, Len(invoked[d]))
           /\ pc[d] = "done" => invoked[d] = acc

\* C4: a dispatch whose last callback signalled propagation-stop is over and
\* has called, in registration order, the registrations up to that one that
\* accept its update and none after it. The stop touches no other dispatch:
\* a dispatch is over before the end of the list only through the outcome of
\* a callback of its own, and a dispatch that went through the list has
\* called every registration that accepts its update.
StopScoped ==
    \A d \in Tasks :
        LET acc == AcceptedRids(event_builders, update[d])
        IN /\ last_out[d] = "StopPropagation" =>
                 /\ pc[d] \in {"stopped", "failed"}
                 /\ invoked[d] # <<>>
                 /\ Len(invoked[d]) <= Len(acc)
                 /\ invoked[d] = SubSeq(acc, 1, Len(invoked[d]))
           /\ pc[d] = "stopped" => last_out[d] = "StopPropagation"
           /\ pc[d] = "failed" => last_out[d] \in {"raise", "StopPropagation"}
           /\ pc[d] = "done" => invoked[d] = acc

\* One dispatch was stopped before the last registration it would have
\* called, and another dispatch has called every registration.
StopScopedWitness ==
    \E d, e \in Tasks :
        /\ pc[d] = "stopped"
        /\ Len(invoked[d]) < Len(AcceptedRids(event_builders, update[d]))
        /\ pc[e] = "done"
        /\ Len(invoked[e]) >= 2
        /\ Last(invoked[e]) > Last(invoked[d])

\* C5: a remove_event_handler(callback, event) step deletes exactly the
\* entries with that callback whose matcher is an instance of the class of
\* event (any matcher when event is None), returns their number and keeps
\* the other entries in order; list_event_handlers shows the same.
RemoveContract ==
    [][\A cb \in Callbacks, e \in EventArgs(Instances) :
          RemoveEventHandler(cb, e) =>
              LET Kept(r) == ~(r.cb = cb /\ (e = NoEvent \/ e.type \in Bases(r.ev.type)))
                  KeptPair(q) == ~(q[1] = cb /\ (e = NoEvent \/ e.type \in Bases(q[2].type)))
              IN /\ event_builders' = SelectSeq(event_builders, Kept)
                 /\ found' = Len(event_builders) - Len(event_builders')
                 /\ ListEventHandlers(event_builders') =
                        SelectSeq(ListEventHandlers(event_builders), KeptPair)]_vars

\* A removal deleted an entry in front of two or more entries that stay.
RemoveContractWitness ==
    /\ found >= 1
    /\ Len(event_builders) >= 2
    /\ event_builders[1].rid > 1

\* C6: a dispatch that has gone through the list has called every
\* registration that is still registered and accepts its update, each once.
NoRemainingSkipped ==
    \A d \in Tasks :
        /\ pc[d] = "done" =>
              \A i \in 1..Len(event_builders) :
                  Build(event_builders[i].ev, update[d]) =>
                      event_builders[i].rid \in Range(invoked[d])
        /\ \A i, j \in 1..Len(invoked[d]) : i < j => invoked[d][i] < invoked[d][j]

\* The answer k of the log is a DifferenceSlice whose pts is not above the
\* pts of the request it answers.
NonAdvancing(k) ==
    /\ responses[k].kind = "DifferenceSlice"
    /\ responses[k].state.pts <= requests[k].pts

\* A DifferenceSlice answer with the given pts.
IsSlice(d, pts) == d.kind = "DifferenceSlice" /\ d.state.pts = pts

\* C7: a DifferenceSlice whose pts is not above the cursor's ends catch_up
\* with no further request; after DifferenceSlice(5), DifferenceSlice(5) from
\* a pts below 5 exactly two requests were sent and no third answer is read.
NonProgressStops ==
    /\ \A k \in 1..Len(responses) :
          NonAdvancing(k) =>
              k = Len(responses) /\ Len(requests) = k /\ cu_pc = "done"
    /\ (/\ Len(responses) >= 2
        /\ requests[1].pts < 5
        /\ IsSlice(responses[1], 5)
        /\ IsSlice(responses[2], 5))
          => Len(requests) = 2 /\ Len(responses) = 2 /\ cu_pc = "done"

\* The script of the claim has been played: two slices with pts 5 from pts 3.
NonProgressStopsWitness ==
    /\ Len(responses) = 2
    /\ requests[1].pts < 5
    /\ IsSlice(responses[1], 5)
    /\ IsSlice(responses[2], 5)
    /\ cu_pc = "done"

\* C8: after an advancing DifferenceSlice with pts 10 and a DifferenceEmpty
\* with date T and seq S, two requests were sent, the second with pts 10,
\* catch_up has returned, the stored state has pts 10, date T and seq S, and
\* the catching-up flag is false.
SliceThenEmpty ==
    (/\ Len(responses) >= 2
     /\ requests[1].pts < 10
     /\ IsSlice(responses[1], 10)
     /\ responses[2].kind = "DifferenceEmpty")
       => /\ Len(requests) = 2
          /\ Len(responses) = 2
          /\ requests[2].pts = 10
          /\ cu_pc = "done"
          /\ cu_result = "returned"
          /\ session_state.pts = 10
          /\ session_state.date = responses[2].date
          /\ session_state.seq = responses[2].seq
          /\ session_state.qts = responses[1].state.qts
          /\ ~catching_up

\* The script of the claim has been played with a date and a seq that differ
\* from each other and from those of the slice.
SliceThenEmptyWitness ==
    /\ Len(responses) = 2
    /\ requests[1].pts < 10
    /\ IsSlice(responses[1], 10)
    /\ responses[2].kind = "DifferenceEmpty"
    /\ responses[2].date # responses[2].seq
    /\ responses[2].date # responses[1].state.date
    /\ cu_pc = "done"

\* C9: a DifferenceTooLong answer is the last one: no request follows it,
\* catch_up is over, and the step that reads it changes neither the local
\* state nor the normalizer's cursor and schedules no dispatch.
TooLongStops ==
    /\ [](\A k \in 1..Len(responses) :
             responses[k].kind = "DifferenceTooLong" =>
                 /\ k = Len(responses)
                 /\ Len(requests) = k
                 /\ cu_pc = "done"
                 /\ GetDifferenceRequest(state) = requests[k]
                 /\ session_state = state)
    /\ [][(/\ Len(responses') = Len(responses) + 1
           /\ Last(responses').kind = "DifferenceTooLong")
             => /\ state' = state
                /\ requests' = requests
                /\ scheduled' = scheduled
                /\ mem_state' = mem_state]_vars

\* DifferenceTooLong answered the second request, after updates of a first
\* answer had been dispatched.
TooLongStopsWitness ==
    /\ Len(responses) = 2
    /\ responses[2].kind = "DifferenceTooLong"
    /\ scheduled # <<>>
    /\ cu_pc = "done"

\* C10: once catch_up has sent a request and is over, whatever ended it, the
\* storage holds its local state and the catching-up flag is false; when
\* the request failed, catch_up has raised.
CleanupOnEveryExit ==
    (cu_pc = "done" /\ requests # <<>>) =>
        /\ session_state = state
        /\ ~catching_up
        /\ Len(responses) = Len(requests)
        /\ Last(responses).kind = "RequestError" => cu_result = "raised"
        /\ cu_result = "returned" =>
              \/ Last(responses).kind \in {"DifferenceEmpty", "DifferenceTooLong"}
              \/ NonAdvancing(Len(responses))

\* The second request failed after the first answer had moved the cursor.
CleanupOnEveryExitWitness ==
    /\ cu_pc = "done"
    /\ cu_result = "raised"
    /\ Len(responses) = 2
    /\ Last(responses).kind = "RequestError"
    /\ session_state.pts = 10
    /\ requests[1].pts = 3

\* C11 as stated: whatever the cursor holds, zero included, a step of 1
\* is not flagged and a step of 2 or more is.
GapFlagAnyCursor ==
    \A i \in 1..Len(gaps) :
        /\ gaps[i].new - gaps[i].old = 1 => ~gaps[i].need_diff
        /\ gaps[i].new - gaps[i].old >= 2 => gaps[i].need_diff

\* C11, amended: an update with pts is compared with the pts the previous
\* one left in the cursor; while the cursor's pts is not 0, a step of 1 (or
\* less) is not flagged and a step of 2 or more is; while it is 0, nothing
\* is flagged.
GapFlag ==
    \A i \in 1..Len(gaps) :
        /\ i > 1 => gaps[i].old = gaps[i - 1].new
        /\ gaps[i].old # 0 =>
              /\ gaps[i].new - gaps[i].old <= 1 => ~gaps[i].need_diff
              /\ gaps[i].new - gaps[i].old >= 2 => gaps[i].need_diff
        /\ gaps[i].old = 0 => ~gaps[i].need_diff

\* One batch held an update one above the cursor, not flagged, and then an
\* update two above it, flagged.
GapFlagWitness ==
    /\ Len(gaps) = 2
    /\ gaps[1].old # 0
    /\ gaps[1].new - gaps[1].old = 1
    /\ ~gaps[1].need_diff
    /\ gaps[2].new - gaps[2].old = 2
    /\ gaps[2].need_diff

\* C12: no step lowers the pts of the cursor _handle_update advances, the
\* steps in which catch_up feeds a synthesized batch included.
PtsNonDecreasing == [][mem_state'.pts >= mem_state.pts]_vars

\* The kinds of the single update items an envelope holds, in order.
RECURSIVE LeafKinds(_)
LeafKinds(u) ==
    IF u.updates = <<>>
    THEN IF u.kind \in {"Updates", "UpdatesCombined"} THEN <<>> ELSE <<u.kind>>
    ELSE LeafKinds(Head(u.updates)) \o
             (IF Len(u.updates) = 1 THEN <<>>
              ELSE LeafKinds([u EXCEPT !.updates = Tail(@)]))

RECURSIVE AllLeafKinds(_)
AllLeafKinds(us) ==
    IF us = <<>> THEN <<>> ELSE LeafKinds(Head(us)) \o AllLeafKinds(Tail(us))

\* C16: the dispatches scheduled are exactly the single update items of the
\* envelopes handled, one each and in order; no envelope is dispatched.
DispatchPerLeaf == scheduled = AllLeafKinds(handled)

\* C17: every DifferenceSlice catch_up has received and is done with, without
\* a failure, was given to _handle_update.
SlicesDelivered ==
    \A k \in 1..Len(responses) :
        (/\ responses[k].kind = "DifferenceSlice"
         /\ k < Len(responses) \/ cu_result = "returned")
            => k \in Range(fed)

\* C19: no matcher instance has its resolve step run to its end more than
\* once, however often it was registered.
ResolveOncePerInstance == \A m \in MatcherIds : resolve_done[m] <= 1

\* C20: when a catch_up that received a Difference or an advancing
\* DifferenceSlice has returned, the stored state and the cursor of
\* _handle_update hold the same pts, date and seq.
OneSyncState ==
    (/\ cu_pc = "done"
     /\ cu_result = "returned"
     /\ \E k \in 1..Len(responses) :
           \/ responses[k].kind = "Difference"
           \/ responses[k].kind = "DifferenceSlice" /\ ~NonAdvancing(k))
       => /\ mem_state.pts = session_state.pts
          /\ mem_state.date = session_state.date
          /\ mem_state.seq = session_state.seq

\* C13: whatever the server answers, as long as it answers, catch_up comes
\* to its end.
CatchUpTerminates == <>(cu_pc = "done")

\* C18: while a call of catch_up has a difference request outstanding, the
\* catching-up flag is true, whether or not another call has ended meanwhile.
FlagWhileReconciling ==
    (cu_pc = "request" \/ other_pc = "request") => catching_up

\* C14: a cycle sends the GetStateRequest only when its test found the last
\* request more than 30 minutes old and is_user_authorized() answered yes;
\* a cycle that found it younger, or the client unauthorized, has sent the
\* ping and no GetStateRequest.
GetStateGated ==
    /\ ka_cycle.get_state =>
          /\ ka_cycle.elapsed > 30 * 60
          /\ ka_cycle.authorized = "yes"
    /\ ka_pc = "get_state" => ka_cycle.get_state /\ ~ka_cycle.over
    /\ ka_pc = "auth" => ka_cycle.elapsed > 30 * 60 /\ ~ka_cycle.get_state
    /\ ka_cycle.checked => ka_cycle.ping
    /\ (ka_cycle.checked /\ ka_cycle.elapsed <= 30 * 60) =>
          ka_cycle.over /\ ka_cycle.authorized = None /\ ~ka_cycle.get_state
    /\ ka_cycle.authorized \in {"no", "raise"} => ka_cycle.over /\ ~ka_cycle.get_state

\* The loop awaits the answer to a GetStateRequest, sent one cycle after a
\* cycle that found the last request exactly 30 minutes old and sent none.
GetStateGatedWitness ==
    /\ ka_pc = "get_state"
    /\ ka_cycle.ping
    /\ ka_cycle.elapsed = 30 * 60 + 60
    /\ last_request = now

\* C15: the keep-alive loop is over only when the client is disconnected:
\* no failure of an await ends it while the client is connected.
KeepAliveSurvives == ka_pc \in {"exited", "failed"} => ~connected

====
